---- MODULE Spec2Model ----
(***************************************************************************)
(* A model of gruyere (src/gruyere/main.py): the interactive session that  *)
(* lists the processes listening on ports, filters them, and kills one     *)
(* after a confirmation, together with the background refresh thread.      *)
(*                                                                         *)
(* Strings of the program are sequences of one-character strings, so that  *)
(* lower(), find(), replace(), int() and str() are computed, not assumed.  *)
(* An Optional value is a sequence of length 0 (None) or 1.                *)
(***************************************************************************)
EXTENDS Integers, Sequences, FiniteSets, Bags, TLC

(***************************************************************************)
(* Characters and Python's string functions.                               *)
(***************************************************************************)

\* The characters the model uses, in code-point order.
Alphabet ==
    << " ", "(", ")", "*", "+", "-", ".", "/",
       "0", "1", "2", "3", "4", "5", "6", "7", "8", "9", ":",
       "A", "B", "C", "D", "E", "F", "G", "H", "I", "J", "K", "L", "M",
       "N", "O", "P", "Q", "R", "S", "T", "U", "V", "W", "X", "Y", "Z",
       "\\", "_",
       "a", "b", "c", "d", "e", "f", "g", "h", "i", "j", "k", "l", "m",
       "n", "o", "p", "q", "r", "s", "t", "u", "v", "w", "x", "y", "z" >>

Ord(c) == CHOOSE i \in DOMAIN Alphabet : Alphabet[i] = c

Digits == << "0", "1", "2", "3", "4", "5", "6", "7", "8", "9" >>

IsDigit(c) == \E i \in DOMAIN Digits : Digits[i] = c

DigitValue(c) == (CHOOSE i \in DOMAIN Digits : Digits[i] = c) - 1

UpperLetters ==
    << "A", "B", "C", "D", "E", "F", "G", "H", "I", "J", "K", "L", "M",
       "N", "O", "P", "Q", "R", "S", "T", "U", "V", "W", "X", "Y", "Z" >>

LowerLetters ==
    << "a", "b", "c", "d", "e", "f", "g", "h", "i", "j", "k", "l", "m",
       "n", "o", "p", "q", "r", "s", "t", "u", "v", "w", "x", "y", "z" >>

\* str.lower() of one character
LowerChar(c) ==
    IF \E i \in DOMAIN UpperLetters : UpperLetters[i] = c
    THEN LowerLetters[CHOOSE i \in DOMAIN UpperLetters : UpperLetters[i] = c]
    ELSE c

\* str.lower()
Lower(s) == [i \in 1..Len(s) |-> LowerChar(s[i])]

\* s[a:b] for 0 <= a, 0 <= b (Python slice, 0-based, end exclusive)
Slice(s, a, b) ==
    LET e == IF b > Len(s) THEN Len(s) ELSE b
    IN  IF a >= e THEN << >> ELSE SubSeq(s, a + 1, e)

\* the 0-based positions at which sub occurs in s
Occurrences(sub, s) ==
    { i \in 0..(Len(s) - Len(sub)) : Slice(s, i, i + Len(sub)) = sub }

Min(S) == CHOOSE x \in S : \A y \in S : x <= y

Max(S) == CHOOSE x \in S : \A y \in S : x >= y

\* sub in s
Contains(sub, s) == Occurrences(sub, s) # {}

\* s.find(sub): the first position, or -1
Find(sub, s) == IF Contains(sub, s) THEN Min(Occurrences(sub, s)) ELSE -1

\* s.rfind(sub): the last position, or -1
RFind(sub, s) == IF Contains(sub, s) THEN Max(Occurrences(sub, s)) ELSE -1

\* s.replace(old, new) for a non-empty old: every non-overlapping
\* occurrence, left to right
RECURSIVE Replace(_, _, _)
Replace(s, old, new) ==
    LET i == Find(old, s)
    IN  IF i = -1
        THEN s
        ELSE Slice(s, 0, i) \o new
                 \o Replace(Slice(s, i + Len(old), Len(s)), old, new)

\* str(n) for n >= 0
RECURSIVE IntToStr(_)
IntToStr(n) ==
    IF n < 10 THEN << Digits[n + 1] >>
    ELSE IntToStr(n \div 10) \o << Digits[(n % 10) + 1] >>

\* the value of a non-empty run of decimal digits
RECURSIVE DigitsValue(_)
DigitsValue(s) ==
    IF Len(s) = 0 THEN 0
    ELSE 10 * DigitsValue(SubSeq(s, 1, Len(s) - 1)) + DigitValue(s[Len(s)])

\* str.strip() of blanks
RECURSIVE Strip(_)
Strip(s) ==
    IF Len(s) > 0 /\ s[1] = " " THEN Strip(Tail(s))
    ELSE IF Len(s) > 0 /\ s[Len(s)] = " " THEN Strip(SubSeq(s, 1, Len(s) - 1))
    ELSE s

\* what int() accepts after the sign: digits, with single underscores
\* allowed between two digits
IsIntBody(s) ==
    /\ Len(s) > 0
    /\ \A i \in 1..Len(s) : IsDigit(s[i]) \/ s[i] = "_"
    /\ IsDigit(s[1]) /\ IsDigit(s[Len(s)])
    /\ \A i \in 1..(Len(s) - 1) : ~(s[i] = "_" /\ s[i + 1] = "_")

\* int(s) does not raise ValueError
IntAccepts(s) ==
    LET t == Strip(s)
        body == IF Len(t) > 0 /\ t[1] \in {"+", "-"} THEN Tail(t) ELSE t
    IN  IsIntBody(body)

\* int(s), when IntAccepts(s)
IntOf(s) ==
    LET t == Strip(s)
        neg == Len(t) > 0 /\ t[1] = "-"
        body == IF Len(t) > 0 /\ t[1] \in {"+", "-"} THEN Tail(t) ELSE t
        v == DigitsValue(SelectSeq(body, IsDigit))
    IN  IF neg THEN 0 - v ELSE v

(***************************************************************************)
(* Ports: int | str.  A port is a record tagged with the type it has.      *)
(***************************************************************************)

IntPort(n) == [isStr |-> FALSE, num |-> n, str |-> << >>]

StrPort(s) == [isStr |-> TRUE, num |-> 0, str |-> s]

\* a slip: only a run of decimal digits is converted
parse_port_digits(port_str) ==
    IF Len(port_str) > 0 /\ \A i \in 1..Len(port_str) : IsDigit(port_str[i])
    THEN IntPort(DigitsValue(port_str))
    ELSE StrPort(port_str)

parse_port(port_str) ==
    IF IntAccepts(port_str) THEN IntPort(IntOf(port_str)) ELSE StrPort(port_str)

(***************************************************************************)
(* The display name of a command.                                          *)
(***************************************************************************)

S_NA == << "N", "/", "A" >>

S_APP == << ".", "a", "p", "p" >>

S_APP_SLASH == << ".", "a", "p", "p", "/" >>

S_EXE == << ".", "e", "x", "e" >>

S_PLUGIN == << " ", "(", "P", "l", "u", "g", "i", "n", ")" >>

S_RENDERER == << " ", "(", "R", "e", "n", "d", "e", "r", "e", "r", ")" >>

S_GPU == << " ", "(", "G", "P", "U", ")" >>

\* command.split()[0] for a command that is not all blanks: the first
\* maximal run of non-blank characters
FirstWord(command) ==
    LET start == Min({ i \in 1..Len(command) : command[i] # " " })
        stops == { i \in start..Len(command) : command[i] = " " }
        stop  == IF stops = {} THEN Len(command) + 1 ELSE Min(stops)
    IN  SubSeq(command, start, stop - 1)

\* os.path.basename (POSIX): what follows the last "/"
Basename(path) == Slice(path, RFind(<< "/" >>, path) + 1, Len(path))

\* the last branch of extract_app_name: first word, basename, suffixes
PlainName(command) ==
    IF \A i \in 1..Len(command) : command[i] = " "
    THEN command
    ELSE Replace(Replace(Replace(Basename(FirstWord(command)),
                                 S_PLUGIN, << >>),
                         S_RENDERER, << >>),
                 S_GPU, << >>)

\* the .exe branch and what follows it
ExeName(command) ==
    LET exe_end == Find(S_EXE, command) + 4
        path_before_exe == Slice(command, 0, exe_end)
        exe_start == Max({ RFind(<< "\\" >>, path_before_exe),
                           RFind(<< "/" >>, path_before_exe) })
    IN  IF Contains(S_EXE, command) /\ exe_start # -1
        THEN Replace(Slice(path_before_exe, exe_start + 1,
                           Len(path_before_exe)), S_EXE, << >>)
        ELSE PlainName(command)

extract_app_name(command) ==
    IF Len(command) = 0 \/ command = S_NA
    THEN command
    ELSE LET first_app_end == Find(S_APP_SLASH, command) + 4
             path_before_app == Slice(command, 0, first_app_end)
             app_start == RFind(<< "/" >>, path_before_app)
         IN  IF Contains(S_APP_SLASH, command) /\ app_start # -1
             THEN Replace(Slice(path_before_app, app_start + 1,
                                Len(path_before_app)), S_APP, << >>)
             ELSE ExeName(command)

(***************************************************************************)
(* Process records and get_processes.                                      *)
(***************************************************************************)

\* the dataclass Process
Process(pid, port, user, command, name) ==
    [pid |-> pid, port |-> port, user |-> user, command |-> command,
     name |-> name]

\* a slip: the last record of each key is kept
RECURSIVE DedupKeepLast(_)
DedupKeepLast(ps) ==
    IF Len(ps) = 0 THEN << >>
    ELSE LET p == ps[1]
             rest == DedupKeepLast(Tail(ps))
         IN  IF \E i \in 2..Len(ps) :
                    ps[i].pid = p.pid /\ ps[i].port = p.port
             THEN rest
             ELSE << p >> \o rest

\* Deduplicate by (pid, port), keeping the first record of each key
RECURSIVE Dedup(_)
Dedup(ps) ==
    IF Len(ps) = 0 THEN << >>
    ELSE LET init == Dedup(SubSeq(ps, 1, Len(ps) - 1))
             p == ps[Len(ps)]
         IN  IF \E i \in 1..(Len(ps) - 1) :
                    ps[i].pid = p.pid /\ ps[i].port = p.port
             THEN init
             ELSE Append(init, p)

\* a < b for two strings, by code points
RECURSIVE StrLess(_, _)
StrLess(a, b) ==
    IF Len(b) = 0 THEN FALSE
    ELSE IF Len(a) = 0 THEN TRUE
    ELSE IF a[1] # b[1] THEN Ord(a[1]) < Ord(b[1])
    ELSE StrLess(Tail(a), Tail(b))

\* a slip: the key is the port alone
KeyLessPortOnly(p, q) ==
    IF p.port.isStr /\ q.port.isStr THEN StrLess(p.port.str, q.port.str)
    ELSE p.port.num < q.port.num

\* (isinstance(p.port, str), p.port) < (isinstance(q.port, str), q.port)
KeyLess(p, q) ==
    IF p.port.isStr # q.port.isStr THEN q.port.isStr
    ELSE IF p.port.isStr THEN StrLess(p.port.str, q.port.str)
    ELSE p.port.num < q.port.num

\* list.sort(key=...): a stable sort, here by insertion
RECURSIVE SortByPort(_)
SortByPort(ps) ==
    IF Len(ps) = 0 THEN << >>
    ELSE LET sorted == SortByPort(SubSeq(ps, 1, Len(ps) - 1))
             p == ps[Len(ps)]
             \* p goes after every record whose key is not greater
             keep == { i \in 1..Len(sorted) : ~KeyLess(p, sorted[i]) }
             pos == IF keep = {} THEN 0 ELSE Max(keep)
         IN  SubSeq(sorted, 1, pos) \o << p >>
                 \o SubSeq(sorted, pos + 1, Len(sorted))

(***************************************************************************)
(* The host: what psutil reports.  The tables are fixed; which of the      *)
(* processes are running changes while the session runs.                   *)
(***************************************************************************)

Pids == {1, 2}

\* psutil.Process(pid).username() and " ".join(cmdline()), whether the
\* lookup raises AccessDenied, and whether the session's user owns the
\* process
ProcTable ==
    [pid \in Pids |->
        IF pid = 1
        THEN [user |-> << "d", "e", "v" >>, denied |-> FALSE, owned |-> TRUE,
              command |-> << "/", "K", ".", "a", "p", "p", "/", "n" >>]
        ELSE [user |-> << "r", "o", "o", "t" >>, denied |-> FALSE,
              owned |-> FALSE,
              command |-> << "b", "i", "n", "/", "K", "n", " ", "x" >>]]

\* psutil.net_connections(kind="inet") then (kind="inet6"): pid 1 listens on
\* port 8000 in both address families, pid 2 also holds a connection that
\* is not listening
ConnTable ==
    << [pid |-> 1, port |-> 8000, status |-> "LISTEN"],
       [pid |-> 2, port |-> 3000, status |-> "LISTEN"],
       [pid |-> 2, port |-> 5000, status |-> "ESTABLISHED"],
       [pid |-> 1, port |-> 8000, status |-> "LISTEN"] >>

\* the connections of the processes that are running
net_connections(alive) ==
    LET Running(conn) == conn.pid \in alive
    IN  SelectSeq(ConnTable, Running)

\* lines 108-123: the record of one listening connection
RecordOf(conn) ==
    LET info == ProcTable[conn.pid]
        user == IF info.denied THEN S_NA ELSE info.user
        command == IF info.denied THEN S_NA ELSE info.command
    IN  Process(conn.pid, parse_port(IntToStr(conn.port)), user, command,
                extract_app_name(command))

\* lines 101-123: one record per listening connection, in order
RECURSIVE RecordsOf(_)
RecordsOf(conns) ==
    IF Len(conns) = 0 THEN << >>
    ELSE LET rest == RecordsOf(Tail(conns))
         IN  IF conns[1].status = "LISTEN"
             THEN << RecordOf(conns[1]) >> \o rest
             ELSE rest

\* lines 94-173 on a host where the processes of `alive` are running
Enumerate(alive) == SortByPort(Dedup(RecordsOf(net_connections(alive))))

\* every enumeration, computed once: @@ makes the table an explicit function
Enumeration == [alive \in SUBSET Pids |-> Enumerate(alive)] @@ << >>

\* get_processes() on a host where the processes of `alive` are running
get_processes(alive) == Enumeration[alive]

(***************************************************************************)
(* Filters.                                                                *)
(***************************************************************************)

None == << >>

Some(x) == << x >>

\* a slip: the case of the letters counts
apply_filter_cased(filter_text, all_processes) ==
    IF Len(filter_text) = 0
    THEN all_processes
    ELSE LET Matches(p) == Contains(filter_text, p.name)
         IN  SelectSeq(all_processes, Matches)

apply_filter(filter_text, all_processes) ==
    IF Len(filter_text) = 0
    THEN all_processes
    ELSE LET Matches(p) == Contains(Lower(filter_text), Lower(p.name))
         IN  SelectSeq(all_processes, Matches)

\* a slip: the case of the letters of the command counts
ApplyCLIFiltersCased(ps, cli_port, cli_user, cli_command) ==
    LET PortOk(p) == cli_port = None \/ p.port = IntPort(cli_port[1])
        UserOk(p) == cli_user = None \/ p.user = cli_user[1]
        CommandOk(p) == cli_command = None
                          \/ Contains(cli_command[1], p.command)
    IN  SelectSeq(SelectSeq(SelectSeq(ps, PortOk), UserOk), CommandOk)

\* lines 440-447: the three CLI filters
ApplyCLIFilters(ps, cli_port, cli_user, cli_command) ==
    LET PortOk(p) == cli_port = None \/ p.port = IntPort(cli_port[1])
        UserOk(p) == cli_user = None \/ p.user = cli_user[1]
        CommandOk(p) == cli_command = None
                          \/ Contains(Lower(cli_command[1]), Lower(p.command))
    IN  SelectSeq(SelectSeq(SelectSeq(ps, PortOk), UserOk), CommandOk)

\* get_filtered_processes(), reading the closure's variables
get_filtered_processes(alive, cp, cu, cc, filtering, text) ==
    LET all_processes == ApplyCLIFilters(Enumeration[alive], cp, cu, cc)
    IN  IF filtering THEN apply_filter(text, all_processes) ELSE all_processes

(***************************************************************************)
(* The table of processes, lines 197-298.                                  *)
(***************************************************************************)

MAX_DISPLAY_PROCESSES == 4

\* lines 225-239: the positions in ps of the rows drawn with the indicator
\* when sel is the selected index (sel is never below -1); the page holding
\* sel is drawn when ps is longer than a page, and a negative page is the
\* empty slice
HighlightedRows(ps, sel) ==
    IF Len(ps) <= MAX_DISPLAY_PROCESSES
    THEN { i \in 0..(Len(ps) - 1) : i = sel }
    ELSE LET page == sel \div MAX_DISPLAY_PROCESSES
             index == sel % MAX_DISPLAY_PROCESSES
             start == page * MAX_DISPLAY_PROCESSES
             end == Min({start + MAX_DISPLAY_PROCESSES, Len(ps)})
         IN  IF sel < 0 THEN {}
             ELSE { i \in start..(end - 1) : i - start = index }

(***************************************************************************)
(* Bounds of the model.                                                    *)
(***************************************************************************)

\* the longest filter text that is typed
MaxFilterLen == 2

\* the refresh threads that are started: one more with every return to the
\* top of the outer loop
MaxThreads == 2

\* the refresh ticks in progress at the same time
MaxTicks == 1

(***************************************************************************)
(* Keys (readchar).                                                        *)
(***************************************************************************)

KEY_UP == "UP"

KEY_DOWN == "DOWN"

KEY_ENTER == "ENTER"

KEY_BACKSPACE == "BACKSPACE"

\* len(ch) == 1 and ch.isprintable()
IsPrintableChar(ch) == \E i \in DOMAIN Alphabet : Alphabet[i] = ch

\* a slip: only the arrow key moves up, k is an ordinary character
IsUpKeyArrowOnly(ch) == ch = KEY_UP

\* line 519 and line 522
IsUpKey(ch) == ch = KEY_UP \/ ch = "k"

IsDownKey(ch) == ch = KEY_DOWN \/ ch = "j"

\* the keys pressed while the process list is shown
BrowseKeys ==
    { KEY_UP, KEY_DOWN, "k", "j", KEY_ENTER, KEY_BACKSPACE, "d", "/", "q", "n" }

\* the keys pressed while the filter is typed
FilterKeys ==
    { KEY_UP, KEY_DOWN, "k", "j", KEY_ENTER, KEY_BACKSPACE, "n", "K" }

\* the keys pressed in the confirmation view
ConfirmKeys == { "y", "Y", "n", "N", "q", "k", KEY_ENTER }

\* the command-line flags the session is started with: --port, --user,
\* --command
CliConfigs ==
    { [port |-> None, user |-> None, command |-> None],
      [port |-> Some(3000), user |-> Some(<< "r", "o", "o", "t" >>),
       command |-> Some(<< "X" >>)] }

(***************************************************************************)
(* The session.                                                            *)
(***************************************************************************)

VARIABLES
    world,            \* the pids of the processes that are running
    cli_port, cli_user, cli_command,
    selected, filter_text, is_filtering, running, details,
    processes, process_to_kill,
    pc,               \* where the main thread is: "live" (readkey in the
                      \* Live loop), "confirm" (readkey in the confirmation
                      \* view), "exit" (main returned), "fault" (an
                      \* exception left main)
    nthreads,         \* the refresh threads started so far
    ticks,            \* the refresh ticks in progress, a bag
    terminator,       \* the pid kill_process was called with in the step
                      \* just taken, if it was called
    call              \* the call of a function taken on its own: its name,
                      \* its arguments and, once it has returned, its result;
                      \* None in a session

vars ==
    << world, cli_port, cli_user, cli_command, selected, filter_text,
       is_filtering, running, details, processes, process_to_kill, pc,
       nthreads, ticks, terminator, call >>

cli_vars == << cli_port, cli_user, cli_command >>

\* the states of section 4.4
Mode ==
    CASE pc = "live" /\ ~is_filtering -> "Browse"
      [] pc = "live" /\ is_filtering -> "Filtering"
      [] pc = "confirm" -> "ConfirmKill"
      [] pc = "exit" -> "Exiting"
      [] OTHER -> "Fault"

\* the exit status of the process: 0 after sys.exit(0) (line 34) and after
\* main has returned, 1 after an exception has left main
ExitStatus ==
    CASE pc = "exit" -> Some(0)
      [] pc = "fault" -> Some(1)
      [] OTHER -> None

AnyCli == cli_port # None \/ cli_user # None \/ cli_command # None

\* ps[i] does not raise IndexError
IndexOk(ps, i) == 0 - Len(ps) <= i /\ i < Len(ps)

\* ps[i], a negative index counting from the end
Index(ps, i) == IF i < 0 THEN ps[Len(ps) + i + 1] ELSE ps[i + 1]

\* lines 417-456 and the first pass through lines 458-516
Init ==
    /\ world \in SUBSET Pids
    /\ \E c \in CliConfigs :
          /\ cli_port = c.port
          /\ cli_user = c.user
          /\ cli_command = c.command
    /\ details \in BOOLEAN
    /\ selected = 0
    /\ filter_text = << >>
    /\ is_filtering = FALSE
    /\ running = TRUE
    /\ processes = get_filtered_processes(world, cli_port, cli_user,
                                          cli_command, FALSE, << >>)
    /\ process_to_kill = None
    /\ pc = "live"
    /\ nthreads = 1
    /\ ticks = EmptyBag
    /\ terminator = None
    /\ call = None

\* a slip: the refresh threads outlive the session
AliveOrExited == pc \in {"live", "confirm", "exit"}

\* the process is running: main has not returned and no exception or exit
\* has unwound it (the refresh threads are daemon threads, line 507)

Alive == pc \in {"live", "confirm"}

\* lines 458-459 and 507-516: back at the top of the outer loop a refresh
\* thread is started and the Live loop entered; the threads started before
\* keep running, since running is still True
LoopTop ==
    /\ process_to_kill' = None
    /\ nthreads' = nthreads + 1
    /\ pc' = "live"

(***************************************************************************)
(* The keys of the Live loop, lines 516-633.                               *)
(***************************************************************************)

\* line 520
UpIndex == IF selected - 1 > 0 THEN selected - 1 ELSE 0

\* line 523
DownIndex ==
    IF Len(processes) - 1 < selected + 1 THEN Len(processes) - 1
    ELSE selected + 1

\* lines 519-521
NavUp(ch) ==
    /\ pc = "live"
    /\ IsUpKey(ch)
    /\ selected' = UpIndex
    /\ terminator' = None
    /\ UNCHANGED call
    /\ UNCHANGED << world, cli_vars, filter_text, is_filtering, running,
                    details, processes, process_to_kill, pc, nthreads, ticks >>

\* lines 522-524
NavDown(ch) ==
    /\ pc = "live"
    /\ ~IsUpKey(ch)
    /\ IsDownKey(ch)
    /\ selected' = DownIndex
    /\ terminator' = None
    /\ UNCHANGED call
    /\ UNCHANGED << world, cli_vars, filter_text, is_filtering, running,
                    details, processes, process_to_kill, pc, nthreads, ticks >>

\* line 527: the key reaches the filtering block
InFilterBlock(ch) ==
    pc = "live" /\ is_filtering /\ ~IsUpKey(ch) /\ ~IsDownKey(ch)

\* a slip: the edit filters the list that is shown, not a fresh enumeration
EditedListCached(text) == apply_filter(text, processes)

\* line 532 and line 567: the list shown after an edit of the filter text
EditedList(text) == apply_filter(text, get_processes(world))

\* lines 528-533: Backspace removes a character
FilterBackspaceErase(ch) ==
    /\ InFilterBlock(ch)
    /\ ch = KEY_BACKSPACE
    /\ Len(filter_text) > 0
    /\ filter_text' = SubSeq(filter_text, 1, Len(filter_text) - 1)
    /\ processes' = EditedList(filter_text')
    /\ selected' = 0
    /\ terminator' = None
    /\ UNCHANGED call
    /\ UNCHANGED << world, cli_vars, is_filtering, running, details,
                    process_to_kill, pc, nthreads, ticks >>

\* a slip: the CLI filters are cleared whatever is listed
ClearsCliAnyList == AnyCli

\* lines 537-541: the CLI filters are cleared
ClearsCli == Len(processes) = 0 /\ AnyCli

\* lines 534-553: Backspace on an empty filter text leaves the filter mode
FilterBackspaceExit(ch) ==
    /\ InFilterBlock(ch)
    /\ ch = KEY_BACKSPACE
    /\ Len(filter_text) = 0
    /\ is_filtering' = FALSE
    /\ IF ClearsCli
       THEN cli_port' = None /\ cli_user' = None /\ cli_command' = None
       ELSE UNCHANGED cli_vars
    /\ processes' = get_filtered_processes(world, cli_port', cli_user',
                                           cli_command', FALSE, filter_text)
    /\ selected' = 0
    /\ terminator' = None
    /\ UNCHANGED call
    /\ UNCHANGED << world, filter_text, running, details, process_to_kill,
                    pc, nthreads, ticks >>

\* lines 554-558, then 635-639: Enter with matches shows the confirmation
FilterEnterSelect(ch) ==
    /\ InFilterBlock(ch)
    /\ ch = KEY_ENTER
    /\ nthreads < MaxThreads
    /\ Len(processes) > 0
    /\ is_filtering' = FALSE
    /\ IF IndexOk(processes, selected)
       THEN /\ process_to_kill' = Some(Index(processes, selected))
            /\ pc' = "confirm"
       ELSE /\ pc' = "fault"
            /\ UNCHANGED process_to_kill
    /\ terminator' = None
    /\ UNCHANGED call
    /\ UNCHANGED << world, cli_vars, selected, filter_text, running, details,
                    processes, nthreads, ticks >>

\* lines 554-564, then 646-650 and the top of the outer loop: Enter with no
\* match
FilterEnterEmpty(ch) ==
    /\ InFilterBlock(ch)
    /\ ch = KEY_ENTER
    /\ nthreads < MaxThreads
    /\ Len(processes) = 0
    /\ is_filtering' = FALSE
    /\ processes' = get_processes(world)
    /\ selected' = 0
    /\ LoopTop
    /\ terminator' = None
    /\ UNCHANGED call
    /\ UNCHANGED << world, cli_vars, filter_text, running, details, ticks >>

\* lines 565-568: a printable character
FilterType(ch) ==
    /\ InFilterBlock(ch)
    /\ ch # KEY_BACKSPACE
    /\ ch # KEY_ENTER
    /\ IsPrintableChar(ch)
    /\ Len(filter_text) < MaxFilterLen
    /\ filter_text' = Append(filter_text, ch)
    /\ processes' = EditedList(filter_text')
    /\ selected' = 0
    /\ terminator' = None
    /\ UNCHANGED call
    /\ UNCHANGED << world, cli_vars, is_filtering, running, details,
                    process_to_kill, pc, nthreads, ticks >>

\* line 581: the key reaches the normal-mode block
InBrowseBlock(ch) ==
    pc = "live" /\ ~is_filtering /\ ~IsUpKey(ch) /\ ~IsDownKey(ch)

\* a slip: d switches the details on and never off
BrowseDetailsOn(ch) ==
    /\ InBrowseBlock(ch)
    /\ ch = "d"
    /\ details' = TRUE
    /\ terminator' = None
    /\ UNCHANGED call
    /\ UNCHANGED << world, cli_vars, selected, filter_text, is_filtering,
                    running, processes, process_to_kill, pc, nthreads, ticks >>

\* lines 583-589
BrowseDetails(ch) ==
    /\ InBrowseBlock(ch)
    /\ ch = "d"
    /\ details' = ~details
    /\ terminator' = None
    /\ UNCHANGED call
    /\ UNCHANGED << world, cli_vars, selected, filter_text, is_filtering,
                    running, processes, process_to_kill, pc, nthreads, ticks >>

\* a slip: '/' also moves the highlight to the first record
BrowseSlashToTop(ch) ==
    /\ InBrowseBlock(ch)
    /\ ch = "/"
    /\ is_filtering' = TRUE
    /\ filter_text' = << >>
    /\ selected' = 0
    /\ terminator' = None
    /\ UNCHANGED call
    /\ UNCHANGED << world, cli_vars, running, details, processes,
                    process_to_kill, pc, nthreads, ticks >>

\* lines 590-599
BrowseSlash(ch) ==
    /\ InBrowseBlock(ch)
    /\ ch = "/"
    /\ is_filtering' = TRUE
    /\ filter_text' = << >>
    /\ terminator' = None
    /\ UNCHANGED call
    /\ UNCHANGED << world, cli_vars, selected, running, details, processes,
                    process_to_kill, pc, nthreads, ticks >>

\* lines 600-602, then 458 and 635: the loops end and main returns
BrowseQuit(ch) ==
    /\ InBrowseBlock(ch)
    /\ ch = "q"
    /\ running' = FALSE
    /\ pc' = "exit"
    /\ terminator' = None
    /\ UNCHANGED call
    /\ UNCHANGED << world, cli_vars, selected, filter_text, is_filtering,
                    details, processes, process_to_kill, nthreads, ticks >>

\* lines 603-607, then 635-639: Enter shows the confirmation
BrowseEnter(ch) ==
    /\ InBrowseBlock(ch)
    /\ ch = KEY_ENTER
    /\ nthreads < MaxThreads
    /\ Len(processes) > 0
    /\ IF IndexOk(processes, selected)
       THEN /\ process_to_kill' = Some(Index(processes, selected))
            /\ pc' = "confirm"
       ELSE /\ pc' = "fault"
            /\ UNCHANGED process_to_kill
    /\ terminator' = None
    /\ UNCHANGED call
    /\ UNCHANGED << world, cli_vars, selected, filter_text, is_filtering,
                    running, details, processes, nthreads, ticks >>

\* lines 608-624: Backspace clears the CLI filters when nothing is listed
BrowseBackspace(ch) ==
    /\ InBrowseBlock(ch)
    /\ ch = KEY_BACKSPACE
    /\ ClearsCli
    /\ cli_port' = None
    /\ cli_user' = None
    /\ cli_command' = None
    /\ processes' = get_filtered_processes(world, None, None, None,
                                           is_filtering, filter_text)
    /\ selected' = 0
    /\ terminator' = None
    /\ UNCHANGED call
    /\ UNCHANGED << world, filter_text, is_filtering, running, details,
                    process_to_kill, pc, nthreads, ticks >>

\* line 625, and Enter and Backspace when their conditions fail: the key is
\* ignored
BrowseIgnored(ch) ==
    /\ InBrowseBlock(ch)
    /\ ch \notin {"d", "/", "q"}
    /\ ch = KEY_ENTER => Len(processes) = 0
    /\ ch = KEY_BACKSPACE => ~ClearsCli
    /\ terminator' = None
    /\ UNCHANGED call
    /\ UNCHANGED << world, cli_vars, selected, filter_text, is_filtering,
                    running, details, processes, process_to_kill, pc,
                    nthreads, ticks >>

(***************************************************************************)
(* The confirmation view, lines 391-396 and 635-645.                       *)
(***************************************************************************)

\* kill_process(pid): psutil.Process(pid) raises NoSuchProcess when the
\* process is gone, kill() raises AccessDenied on a process of another user
KillRaises(pid) == pid \notin world \/ ~ProcTable[pid].owned

\* a slip: the pid of the row highlighted when y is pressed
KillTargetHighlighted ==
    IF Len(processes) > 0 /\ IndexOk(processes, selected)
    THEN Index(processes, selected).pid
    ELSE process_to_kill[1].pid

\* line 640: the pid given to kill_process
KillTarget == process_to_kill[1].pid

\* line 642
ClampAfterKill(n) == IF n - 1 < selected THEN n - 1 ELSE selected

\* lines 393-394 and 639-642: y kills the captured process, then the list is
\* read again
ConfirmYes(ch) ==
    /\ pc = "confirm"
    /\ LowerChar(ch) = "y"
    /\ terminator' = Some(KillTarget)
    /\ UNCHANGED call
    /\ IF KillRaises(KillTarget)
       THEN /\ pc' = "fault"
            /\ UNCHANGED << world, processes, selected, process_to_kill,
                            nthreads >>
       ELSE /\ world' = world \ {KillTarget}
            /\ processes' = get_processes(world')
            /\ selected' = ClampAfterKill(Len(processes'))
            /\ LoopTop
    /\ UNCHANGED << cli_vars, filter_text, is_filtering, running, details,
                    ticks >>

\* a slip: cancelling reads the list again
ConfirmNoReenumerates(ch) ==
    /\ pc = "confirm"
    /\ LowerChar(ch) \in {"n", "q"}
    /\ processes' = get_processes(world)
    /\ LoopTop
    /\ terminator' = None
    /\ UNCHANGED call
    /\ UNCHANGED << world, cli_vars, selected, filter_text, is_filtering,
                    running, details, ticks >>

\* lines 395-396 and 644-645: n or q cancels
ConfirmNo(ch) ==
    /\ pc = "confirm"
    /\ LowerChar(ch) \in {"n", "q"}
    /\ LoopTop
    /\ terminator' = None
    /\ UNCHANGED call
    /\ UNCHANGED << world, cli_vars, selected, filter_text, is_filtering,
                    running, details, processes, ticks >>

\* a slip: Enter leaves the confirmation view as n does
ConfirmIgnoredButEnter(ch) ==
    /\ pc = "confirm"
    /\ LowerChar(ch) \notin {"y", "n", "q"}
    /\ IF ch = KEY_ENTER THEN LoopTop
       ELSE UNCHANGED << process_to_kill, pc, nthreads >>
    /\ terminator' = None
    /\ UNCHANGED call
    /\ UNCHANGED << world, cli_vars, selected, filter_text, is_filtering,
                    running, details, processes, ticks >>

\* lines 391-392: any other key is read and dropped
ConfirmIgnored(ch) ==
    /\ pc = "confirm"
    /\ LowerChar(ch) \notin {"y", "n", "q"}
    /\ terminator' = None
    /\ UNCHANGED call
    /\ UNCHANGED << world, cli_vars, selected, filter_text, is_filtering,
                    running, details, processes, process_to_kill, pc,
                    nthreads, ticks >>

(***************************************************************************)
(* The refresh threads, lines 473-505.  The threads and the main thread    *)
(* share processes and selected without a lock, so a tick is a sequence of *)
(* steps between which the main thread handles keys.                       *)
(***************************************************************************)

\* the ticks in progress with t replaced by u
Moved(t, u) == (ticks (-) SetToBag({t})) (+) SetToBag({u})

\* the ticks in progress without t
Ended(t) == ticks (-) SetToBag({t})

\* a slip: the tick lists the enumeration without the CLI filters
TickStartUnfiltered ==
    /\ Alive
    /\ running
    /\ BagCardinality(ticks) < MaxTicks
    /\ BagCardinality(ticks) < nthreads
    /\ ticks' = ticks (+) SetToBag({
          [at |-> "publish",
           fresh |-> IF is_filtering
                     THEN apply_filter(filter_text, get_processes(world))
                     ELSE get_processes(world)] })
    /\ terminator' = None
    /\ UNCHANGED call
    /\ UNCHANGED << world, cli_vars, selected, filter_text, is_filtering,
                    running, details, processes, process_to_kill, pc,
                    nthreads >>

\* line 479, right-hand side: a thread whose interval has elapsed computes
\* the list
TickStart ==
    /\ Alive
    /\ running
    /\ BagCardinality(ticks) < MaxTicks
    /\ BagCardinality(ticks) < nthreads
    /\ ticks' = ticks (+) SetToBag({
          [at |-> "publish",
           fresh |-> get_filtered_processes(world, cli_port, cli_user,
                        cli_command, is_filtering, filter_text)] })
    /\ terminator' = None
    /\ UNCHANGED call
    /\ UNCHANGED << world, cli_vars, selected, filter_text, is_filtering,
                    running, details, processes, process_to_kill, pc,
                    nthreads >>

\* a slip: publishing the list drops the record captured for the
\* confirmation
TickPublishDropsCapture(t) ==
    /\ Alive
    /\ t.at = "publish"
    /\ processes' = t.fresh
    /\ process_to_kill' = None
    /\ ticks' = Moved(t, [at |-> "clamp", fresh |-> << >>])
    /\ terminator' = None
    /\ UNCHANGED call
    /\ UNCHANGED << world, cli_vars, selected, filter_text, is_filtering,
                    running, details, pc, nthreads >>

\* line 479, the assignment
TickPublish(t) ==
    /\ Alive
    /\ t.at = "publish"
    /\ processes' = t.fresh
    /\ ticks' = Moved(t, [at |-> "clamp", fresh |-> << >>])
    /\ terminator' = None
    /\ UNCHANGED call
    /\ UNCHANGED << world, cli_vars, selected, filter_text, is_filtering,
                    running, details, process_to_kill, pc, nthreads >>

\* lines 482 and 484: the branch taken
ClampBranch ==
    IF selected >= Len(processes) /\ Len(processes) > 0 THEN "setLast"
    ELSE IF Len(processes) = 0 THEN "setZero"
    ELSE "done"

\* lines 482 and 484, the conditions
TickClampCheck(t) ==
    /\ Alive
    /\ t.at = "clamp"
    /\ ticks' = IF ClampBranch = "done"
                THEN Ended(t)
                ELSE Moved(t, [at |-> ClampBranch, fresh |-> << >>])
    /\ terminator' = None
    /\ UNCHANGED call
    /\ UNCHANGED << world, cli_vars, selected, filter_text, is_filtering,
                    running, details, processes, process_to_kill, pc,
                    nthreads >>

\* lines 483 and 485, the assignments
TickClampSet(t) ==
    /\ Alive
    /\ t.at \in {"setLast", "setZero"}
    /\ selected' = IF t.at = "setLast" THEN Len(processes) - 1 ELSE 0
    /\ ticks' = Ended(t)
    /\ terminator' = None
    /\ UNCHANGED call
    /\ UNCHANGED << world, cli_vars, filter_text, is_filtering, running,
                    details, processes, process_to_kill, pc, nthreads >>

(***************************************************************************)
(* The host and the signal.                                                *)
(***************************************************************************)

\* a process starts listening
EnvStart(p) ==
    /\ Alive
    /\ p \notin world
    /\ world' = world \cup {p}
    /\ terminator' = None
    /\ UNCHANGED call
    /\ UNCHANGED << cli_vars, selected, filter_text, is_filtering, running,
                    details, processes, process_to_kill, pc, nthreads, ticks >>

\* a process exits
EnvExit(p) ==
    /\ Alive
    /\ p \in world
    /\ world' = world \ {p}
    /\ terminator' = None
    /\ UNCHANGED call
    /\ UNCHANGED << cli_vars, selected, filter_text, is_filtering, running,
                    details, processes, process_to_kill, pc, nthreads, ticks >>

\* a slip: the signal is handled only while the process list is shown
InterruptInLiveOnly ==
    /\ pc = "live"
    /\ pc' = "exit"
    /\ terminator' = None
    /\ UNCHANGED call
    /\ UNCHANGED << world, cli_vars, selected, filter_text, is_filtering,
                    running, details, processes, process_to_kill, nthreads,
                    ticks >>

\* line 34: SIGINT runs sys.exit(0) in the main thread
Interrupt ==
    /\ Alive
    /\ pc' = "exit"
    /\ terminator' = None
    /\ UNCHANGED call
    /\ UNCHANGED << world, cli_vars, selected, filter_text, is_filtering,
                    running, details, processes, process_to_kill, nthreads,
                    ticks >>

(***************************************************************************)
(* The specification.                                                      *)
(***************************************************************************)

\* one key read and handled in the Live loop
LiveKey(ch) ==
    \/ NavUp(ch)
    \/ NavDown(ch)
    \/ FilterBackspaceErase(ch)
    \/ FilterBackspaceExit(ch)
    \/ FilterEnterSelect(ch)
    \/ FilterEnterEmpty(ch)
    \/ FilterType(ch)
    \/ BrowseDetails(ch)
    \/ BrowseSlash(ch)
    \/ BrowseQuit(ch)
    \/ BrowseEnter(ch)
    \/ BrowseBackspace(ch)
    \/ BrowseIgnored(ch)

\* one key read in the confirmation view
ConfirmKey(ch) ==
    \/ ConfirmYes(ch)
    \/ ConfirmNo(ch)
    \/ ConfirmIgnored(ch)

KeyStep ==
    \/ \E ch \in (IF is_filtering THEN FilterKeys ELSE BrowseKeys) : LiveKey(ch)
    \/ \E ch \in ConfirmKeys : ConfirmKey(ch)

RefreshStep ==
    \/ TickStart
    \/ \E t \in BagToSet(ticks) :
          TickPublish(t) \/ TickClampCheck(t) \/ TickClampSet(t)

EnvStep == \E p \in Pids : EnvStart(p) \/ EnvExit(p)

Next == KeyStep \/ RefreshStep \/ EnvStep \/ Interrupt

Spec == Init /\ [][Next]_vars

\* a session started with the flags --port, --user and --command
InitCli == Init /\ AnyCli

CliSpec == InitCli /\ [][Next]_vars

\* the filter texts a session left alone may show
IdleFilterTexts == { << >>, << "n" >>, << "K" >> }

\* a session waiting for a key in Browse or in Filtering after the set of
\* listening processes has changed: the list is the one a refresh tick
\* published for an earlier set, and a tick that computed its list before
\* the change may be in progress
InitStale ==
    /\ world \in SUBSET Pids
    /\ \E c \in CliConfigs :
          /\ cli_port = c.port
          /\ cli_user = c.user
          /\ cli_command = c.command
    /\ details \in BOOLEAN
    /\ is_filtering \in BOOLEAN
    /\ filter_text \in IdleFilterTexts
    /\ \E earlier \in SUBSET Pids :
          processes = get_filtered_processes(earlier, cli_port, cli_user,
                          cli_command, is_filtering, filter_text)
    /\ selected \in 0..Max({Len(processes) - 1, 0})
    /\ running = TRUE
    /\ process_to_kill = None
    /\ pc = "live"
    /\ nthreads \in 1..MaxThreads
    /\ ticks \in { EmptyBag,
                   SetToBag({ [at |-> "publish", fresh |-> processes] }) }
    /\ terminator = None
    /\ call = None

\* the session left alone: no key is pressed and the set of listening
\* processes stays the same, while the refresh threads keep running (lines
\* 475-478: a thread sleeps 100 ms between two looks at the clock and starts
\* a tick once 2 s have passed)
RefreshSpec == InitStale /\ [][RefreshStep]_vars /\ WF_vars(RefreshStep)

(***************************************************************************)
(* Functions taken on their own: call holds the name of the function, its  *)
(* arguments and, after the return, its result, while the session          *)
(* variables rest.                                                         *)
(***************************************************************************)

session_vars ==
    << world, cli_port, cli_user, cli_command, selected, filter_text,
       is_filtering, running, details, processes, process_to_kill, pc,
       nthreads, ticks, terminator >>

\* no session is running
NoSession ==
    /\ world = {}
    /\ cli_port = None
    /\ cli_user = None
    /\ cli_command = None
    /\ selected = 0
    /\ filter_text = << >>
    /\ is_filtering = FALSE
    /\ running = FALSE
    /\ details = FALSE
    /\ processes = << >>
    /\ process_to_kill = None
    /\ pc = "call"
    /\ nthreads = 0
    /\ ticks = EmptyBag
    /\ terminator = None

\* the function fn is called with the arguments arg
Called(fn, arg) == [fn |-> fn, arg |-> arg, ret |-> None]

\* the call of fn has returned
Returned(fn) == call # None /\ call.fn = fn /\ call.ret # None

\* the sequences over S of length at most n
SeqsUpTo(S, n) == UNION { [1..k -> S] : k \in 0..n }

\* the longest list of records a function is called with
MaxRaw == 3

\* the records appended by lines 121-123 and 149-157, before lines 162-173
RawRecords ==
    { Process(pid, port, user, << "c" >>, << "c" >>) :
          pid \in {1, 2},
          port \in { IntPort(80), IntPort(8000), StrPort(<< "*" >>),
                     StrPort(<< "a" >>) },
          user \in { << "d" >>, S_NA } }

\* lines 162-173: the end of get_processes, from the records appended
Collected(raw) == SortByPort(Dedup(raw))

InitCollect ==
    /\ NoSession
    /\ call \in { Called("get_processes", raw) : raw \in SeqsUpTo(RawRecords, MaxRaw) }

ReturnCollect ==
    /\ call # None
    /\ call.fn = "get_processes"
    /\ call.ret = None
    /\ call' = [call EXCEPT !.ret = Some(Collected(call.arg))]
    /\ UNCHANGED session_vars

\* what a call of psutil does: it returns, or it raises one of these
Exceptions == {"NoSuchProcess", "AccessDenied", "ZombieProcess"}

Outcomes == {"ok"} \cup Exceptions

\* an except clause naming `classes` catches exc; psutil.ZombieProcess is a
\* subclass of psutil.NoSuchProcess
Catches(classes, exc) ==
    exc \in classes \/ (exc = "ZombieProcess" /\ "NoSuchProcess" \in classes)

\* a slip: a lookup that is denied is not caught
LookupCaughtNoSuchProcess == {"NoSuchProcess"}

\* lines 116 and 144
LookupCaught == {"NoSuchProcess", "AccessDenied"}

\* line 124
BulkCaught == {"AccessDenied"}

\* line 158
SkipCaught == {"NoSuchProcess", "AccessDenied", "ZombieProcess"}

\* a host: the outcome of psutil.net_connections, of the lookups of each
\* process (lines 111-115, 137-143) and of proc.net_connections of each
\* process (lines 131-132)
Hosts ==
    [bulk : {"ok", "AccessDenied"}, lookup : [Pids -> Outcomes],
     conns : [Pids -> Outcomes]]

\* a list being built, and the exception that interrupted it, if any
Built(raised, value) == [raised |-> raised, value |-> value]

\* lines 109-123 and 135-157: the record of one listening connection
LookupRecord(host, conn) ==
    LET outcome == host.lookup[conn.pid]
        port == parse_port(IntToStr(conn.port))
        info == ProcTable[conn.pid]
    IN  IF outcome = "ok"
        THEN Built("ok", << Process(conn.pid, port, info.user, info.command,
                                    extract_app_name(info.command)) >>)
        ELSE IF Catches(LookupCaught, outcome)
        THEN Built("ok", << Process(conn.pid, port, S_NA, S_NA,
                                    extract_app_name(S_NA)) >>)
        ELSE Built(outcome, << >>)

\* lines 101-123 and 133-157: the records of the listening connections among
\* conns, up to the first lookup that raises
RECURSIVE LookupRecords(_, _)
LookupRecords(host, conns) ==
    IF Len(conns) = 0 THEN Built("ok", << >>)
    ELSE IF conns[1].status # "LISTEN" THEN LookupRecords(host, Tail(conns))
    ELSE LET first == LookupRecord(host, conns[1])
         IN  IF first.raised # "ok" THEN first
             ELSE LET rest == LookupRecords(host, Tail(conns))
                  IN  Built(rest.raised, first.value \o rest.value)

\* lines 98-123: the primary path
PrimaryRecords(host) ==
    IF host.bulk # "ok" THEN Built(host.bulk, << >>)
    ELSE LookupRecords(host, ConnTable)

\* lines 127-160: the fallback over the processes from pid on, in the order
\* of psutil.process_iter
RECURSIVE FallbackRecords(_, _)
FallbackRecords(host, pid) ==
    IF pid \notin Pids THEN Built("ok", << >>)
    ELSE LET OfPid(conn) == conn.pid = pid
             mine == IF host.conns[pid] = "ok"
                     THEN LookupRecords(host, SelectSeq(ConnTable, OfPid))
                     ELSE Built(host.conns[pid], << >>)
         IN  IF mine.raised # "ok" /\ ~Catches(SkipCaught, mine.raised)
             THEN mine
             ELSE LET rest == FallbackRecords(host, pid + 1)
                  IN  Built(rest.raised, mine.value \o rest.value)

\* lines 94-173 on a host: the list returned, or the exception raised
GetProcessesOn(host) ==
    LET primary == PrimaryRecords(host)
    IN  IF primary.raised = "ok"
        THEN Built("ok", Collected(primary.value))
        ELSE IF ~Catches(BulkCaught, primary.raised)
        THEN Built(primary.raised, << >>)
        ELSE LET fallback == FallbackRecords(host, 1)
             IN  IF fallback.raised = "ok"
                 THEN Built("ok", Collected(primary.value \o fallback.value))
                 ELSE Built(fallback.raised, << >>)

InitHost ==
    /\ NoSession
    /\ call \in { Called("get_processes on a host", host) : host \in Hosts }

ReturnHost ==
    /\ call # None
    /\ call.fn = "get_processes on a host"
    /\ call.ret = None
    /\ call' = [call EXCEPT !.ret = Some(GetProcessesOn(call.arg))]
    /\ UNCHANGED session_vars

HostSpec == InitHost /\ [][ReturnHost]_vars

CollectSpec == InitCollect /\ [][ReturnCollect]_vars

\* the records the filters are called with
FilterRecords ==
    { Process(1, port, user, command, name) :
          port \in { IntPort(3000), StrPort(<< "*" >>) },
          user \in { << "r", "o", "o", "t" >>, << "d", "e", "v" >> },
          command \in { << "a", "x" >> },
          name \in { << "K", "n" >>, << "K" >> } }
    \cup
    { Process(2, port, user, command, name) :
          port \in { IntPort(3000) },
          user \in { << "r", "o", "o", "t" >> },
          command \in { << "b" >> },
          name \in { << "K", "n" >>, << "K" >> } }

\* the options --port, --user and --command of a call of the CLI filters
FilterPorts == { None, Some(3000) }

FilterUsers == { None, Some(<< "r", "o", "o", "t" >>) }

FilterCommands == { None, Some(<< "X" >>) }

\* the texts apply_filter is called with
FilterTexts == { << >>, << "N" >>, << "k", "n" >>, << "z" >> }

InitFilter ==
    /\ NoSession
    /\ \/ call \in { Called("get_filtered_processes",
                            [ps |-> ps, port |-> port, user |-> user,
                             command |-> command]) :
                         ps \in SeqsUpTo(FilterRecords, MaxRaw),
                         port \in FilterPorts, user \in FilterUsers,
                         command \in FilterCommands }
       \/ call \in { Called("apply_filter", [text |-> text, ps |-> ps]) :
                         text \in FilterTexts,
                         ps \in SeqsUpTo(FilterRecords, MaxRaw) }

\* lines 438-447 on the list ps
ReturnCliFilter ==
    /\ call # None
    /\ call.fn = "get_filtered_processes"
    /\ call.ret = None
    /\ call' = [call EXCEPT !.ret =
                    Some(ApplyCLIFilters(call.arg.ps, call.arg.port,
                                         call.arg.user, call.arg.command))]
    /\ UNCHANGED session_vars

ReturnApplyFilter ==
    /\ call # None
    /\ call.fn = "apply_filter"
    /\ call.ret = None
    /\ call' = [call EXCEPT !.ret =
                    Some(apply_filter(call.arg.text, call.arg.ps))]
    /\ UNCHANGED session_vars

FilterNext == ReturnCliFilter \/ ReturnApplyFilter

FilterSpec == InitFilter /\ [][FilterNext]_vars

\* the longest list that is rendered
MaxRows == 9

\* lines 225-235: the records that are drawn; a negative start (selected is
\* never below -1) is the empty slice of a list longer than a page
display_processes(ps, sel) ==
    IF Len(ps) <= MAX_DISPLAY_PROCESSES
    THEN ps
    ELSE LET page == sel \div MAX_DISPLAY_PROCESSES
             start == page * MAX_DISPLAY_PROCESSES
             end == start + MAX_DISPLAY_PROCESSES
         IN  IF start < 0 THEN << >> ELSE Slice(ps, start, end)

\* a slip: the index in the list is taken for the index in the page
display_selected_unpaged(ps, sel) == sel

\* lines 225-235: the index of the highlighted row among those drawn
display_selected(ps, sel) ==
    IF Len(ps) <= MAX_DISPLAY_PROCESSES
    THEN sel
    ELSE sel % MAX_DISPLAY_PROCESSES

\* lines 237-281: one panel per record drawn, with its indicator
Panels(ps, sel) ==
    LET rows == display_processes(ps, sel)
    IN  [i \in 1..Len(rows) |->
            [process |-> rows[i],
             indicator |-> (i - 1 = display_selected(ps, sel))]]

\* the list of n records, one per port
Rows(n) ==
    [i \in 1..n |->
        Process(i, IntPort(3000 + i), << "d" >>, << "c" >>, << "c" >>)]

InitRender ==
    /\ NoSession
    /\ call \in { Called("_render_processes_table",
                         [processes |-> Rows(n), selected |-> sel,
                          show_details |-> d, is_filtering |-> f]) :
                      n \in 0..MaxRows, sel \in -1..(MaxRows - 1),
                      d \in BOOLEAN, f \in BOOLEAN }
    /\ call.arg.selected < Max({Len(call.arg.processes), 1})

ReturnRender ==
    /\ call # None
    /\ call.fn = "_render_processes_table"
    /\ call.ret = None
    /\ call' = [call EXCEPT !.ret =
                    Some(Panels(call.arg.processes, call.arg.selected))]
    /\ UNCHANGED session_vars

RenderSpec == InitRender /\ [][ReturnRender]_vars

\* the longest port string made of PortChars
MaxPortLen == 3

\* the most parts a command is made of
MaxParts == 4

\* the characters of the port strings
PortChars == {"0", "8", " ", "+", "-", "_", "*"}

\* the strings parse_port is called with
PortStrings ==
    SeqsUpTo(PortChars, MaxPortLen)
    \cup { << "8", "0", "0", "0" >>, << "*", ":", "8", "0", "0", "0" >>,
           << "i", "n", "v", "a", "l", "i", "d" >> }

\* the parts of the commands
CommandParts == { << "/" >>, << "K" >>, << "n" >>, << " " >>, S_APP }

\* the parts of a command, joined
RECURSIVE Joined(_)
Joined(parts) ==
    IF Len(parts) = 0 THEN << >> ELSE parts[1] \o Joined(Tail(parts))

\* the commands extract_app_name is called with
Commands ==
    { Joined(parts) : parts \in SeqsUpTo(CommandParts, MaxParts) }
    \cup { S_NA }

InitString ==
    /\ NoSession
    /\ \/ call \in { Called("parse_port", s) : s \in PortStrings }
       \/ call \in { Called("extract_app_name", c) : c \in Commands }

ReturnParsePort ==
    /\ call # None
    /\ call.fn = "parse_port"
    /\ call.ret = None
    /\ call' = [call EXCEPT !.ret = Some(parse_port(call.arg))]
    /\ UNCHANGED session_vars

ReturnExtractAppName ==
    /\ call # None
    /\ call.fn = "extract_app_name"
    /\ call.ret = None
    /\ call' = [call EXCEPT !.ret = Some(extract_app_name(call.arg))]
    /\ UNCHANGED session_vars

StringNext == ReturnParsePort \/ ReturnExtractAppName

StringSpec == InitString /\ [][StringNext]_vars

\* the keys alone: no refresh tick, no change of the host, no signal
KeysSpec == Init /\ [][KeyStep]_vars

\* section 5 of the specification: a refresh tick made under mutual
\* exclusion with the key handling, lines 479-485 as one step
SerialTick ==
    /\ Alive
    /\ running
    /\ processes' = get_filtered_processes(world, cli_port, cli_user,
                        cli_command, is_filtering, filter_text)
    /\ selected' = IF selected >= Len(processes') /\ Len(processes') > 0
                   THEN Len(processes') - 1
                   ELSE IF Len(processes') = 0 THEN 0 ELSE selected
    /\ terminator' = None
    /\ UNCHANGED call
    /\ UNCHANGED << world, cli_vars, filter_text, is_filtering, running,
                    details, process_to_kill, pc, nthreads, ticks >>

SerialNext == KeyStep \/ SerialTick \/ EnvStep \/ Interrupt

SerialSpec == Init /\ [][SerialNext]_vars

(***************************************************************************)
(* Properties.                                                             *)
(***************************************************************************)

\* no refresh tick is in progress
Quiescent == ticks = EmptyBag

\* p passes the CLI filters that are set
SatisfiesCli(p) ==
    ApplyCLIFilters(<< p >>, cli_port, cli_user, cli_command) = << p >>

\* the enumeration of the running processes narrowed by the CLI filters
CliFilteredSet ==
    get_filtered_processes(world, cli_port, cli_user, cli_command, FALSE, << >>)

\* C1: whenever the session waits for a key and no refresh tick is in
\* progress, selected is a valid index of the list, and 0 when the list is
\* empty.
C1_SelectedInRange ==
    (Alive /\ Quiescent) =>
        IF Len(processes) = 0
        THEN selected = 0
        ELSE 0 <= selected /\ selected < Len(processes)

\* C2: refresh ticks and key steps are serialized, so what every serial order
\* of whole ticks and whole key steps maintains holds whenever no tick is in
\* progress: while the filter is typed every listed record matches the
\* filter text, and selected never points past the end of the list.
C2_SerialOutcome ==
    (Alive /\ Quiescent) =>
        /\ (is_filtering /\ pc = "live") =>
               processes = apply_filter(filter_text, processes)
        /\ Len(processes) > 0 => selected < Len(processes)

\* C3: kill_process is called only by the y of the confirmation view, with
\* the pid of the record captured by the Enter that opened the view; the
\* view is opened only by Enter, which captures the record at selected, and
\* the captured record does not change while the view is shown.
C3_KillOnlyConfirmed ==
    [][ /\ terminator' # None =>
              /\ pc = "confirm"
              /\ \E ch \in ConfirmKeys : LowerChar(ch) = "y" /\ ConfirmKey(ch)
              /\ process_to_kill # None
              /\ terminator' = Some(process_to_kill[1].pid)
        /\ (pc # "confirm" /\ pc' = "confirm") =>
              /\ LiveKey(KEY_ENTER)
              /\ IndexOk(processes, selected)
              /\ process_to_kill' = Some(Index(processes, selected))
        /\ (pc = "confirm" /\ pc' = "confirm") =>
              process_to_kill' = process_to_kill
      ]_vars

\* C3 witness: the Terminator was called and the session is back in Browse
C3_Witness == terminator # None /\ Mode = "Browse"

\* C4: after y in the confirmation view, whether the kill succeeded or
\* failed, the session is back in Browse with the list read again and
\* selected clamped.
C4_KillFailureSwallowed ==
    [][ (pc = "confirm" /\ terminator' # None) =>
            /\ pc' = "live"
            /\ ~is_filtering'
            /\ processes' = Enumeration[world']
            /\ selected' < Len(processes') \/ Len(processes') = 0
      ]_vars

\* C5: while a CLI filter is set, every record listed in Browse and in
\* Filtering passes it.
C5_ListSatisfiesCli ==
    (Mode \in {"Browse", "Filtering"} /\ Quiescent /\ AnyCli) =>
        \A i \in 1..Len(processes) : SatisfiesCli(processes[i])

\* C6: with the keys alone (the host does not change) and no CLI filter set
\* (the CLI-filtered set is then the whole enumeration), n in the
\* confirmation view that Enter opened from the filter returns to Browse with
\* the list equal to the whole set, no longer narrowed by the filter text.
C6_CancelRestoresList ==
    [][ (pc = "confirm" /\ Len(filter_text) > 0 /\ ~AnyCli
           /\ \E ch \in {"n", "N"} : ConfirmKey(ch)) =>
            /\ Mode' = "Browse"
            /\ processes' = CliFilteredSet'
      ]_vars

\* the printable characters among the keys pressed while the filter is typed
PrintableFilterKeys == { ch \in FilterKeys : IsPrintableChar(ch) }

\* C7 as stated: in Filtering every printable character that is typed is
\* appended to filter_text.
C7_EveryPrintableAppended ==
    [][ Mode = "Filtering" =>
            \A ch \in PrintableFilterKeys :
                LiveKey(ch) => filter_text' = Append(filter_text, ch)
      ]_vars

\* C7 amended: in Filtering every printable character other than the
\* navigation keys k and j is appended to filter_text; k and j move the
\* selection as Up and Down do and leave filter_text unchanged.
C7_PrintableAppendedExceptNav ==
    [][ Mode = "Filtering" =>
            \A ch \in PrintableFilterKeys :
                LiveKey(ch) =>
                    IF ch \in {"k", "j"}
                    THEN /\ filter_text' = filter_text
                         /\ selected' = IF ch = "k" THEN UpIndex ELSE DownIndex
                    ELSE filter_text' = Append(filter_text, ch)
      ]_vars

\* C7 witness: two characters were appended and k or j moved the selection
C7_Witness ==
    /\ Mode = "Filtering"
    /\ filter_text = << "K" >>
    /\ Len(processes) = 2
    /\ selected = 1

\* C8: a step that edits filter_text in Filtering leaves the list equal to
\* the filter of the new text over the enumeration of the processes running
\* at that step, and selected equal to 0.
C8_EditRefilters ==
    [][ (Mode = "Filtering" /\ Mode' = "Filtering"
           /\ filter_text' # filter_text) =>
            /\ processes' = apply_filter(filter_text', Enumeration[world])
            /\ selected' = 0
      ]_vars

\* C8 witness: after an edit the list is wider than the list a stale base
\* would give: Backspace brought back a record the longer text had excluded
C8_Witness ==
    /\ Mode = "Filtering"
    /\ filter_text = << "K" >>
    /\ Len(processes) = 2
    /\ selected = 0
    /\ Quiescent

\* C9: with the keys alone, Enter in Filtering opens the confirmation view
\* with the record at selected captured when the list is not empty, and
\* otherwise returns to Browse with nothing captured, selected 0 and the
\* list equal to the whole CLI-filtered set.
C9_FilterEnter ==
    [][ (Mode = "Filtering" /\ LiveKey(KEY_ENTER)) =>
            IF Len(processes) > 0
            THEN /\ Mode' = "ConfirmKill"
                 /\ 0 <= selected /\ selected < Len(processes)
                 /\ process_to_kill' = Some(processes[selected + 1])
            ELSE /\ Mode' = "Browse"
                 /\ process_to_kill' = None
                 /\ selected' = 0
                 /\ processes' = CliFilteredSet'
      ]_vars

\* C10: with the keys alone, Backspace in Filtering removes the last
\* character of a non-empty filter_text and stays in Filtering; on an empty
\* filter_text it returns to Browse and clears the CLI filters exactly when
\* the CLI-filtered set is empty and a CLI filter is set.
C10_FilterBackspace ==
    [][ (Mode = "Filtering" /\ LiveKey(KEY_BACKSPACE)) =>
            IF Len(filter_text) > 0
            THEN /\ filter_text' = SubSeq(filter_text, 1, Len(filter_text) - 1)
                 /\ Mode' = "Filtering"
                 /\ UNCHANGED cli_vars
            ELSE /\ Mode' = "Browse"
                 /\ IF Len(CliFilteredSet) = 0 /\ AnyCli
                    THEN cli_port' = None /\ cli_user' = None
                           /\ cli_command' = None
                    ELSE UNCHANGED cli_vars
      ]_vars

\* C11: Backspace in Browse, when nothing is listed and a CLI filter is set,
\* clears the three CLI filters together, lists the whole enumeration and
\* sets selected to 0; in every other Browse state it changes nothing.  No
\* step clears a CLI filter while a record is listed, a step that changes a
\* CLI filter clears all three, and cleared filters stay cleared.
C11_BrowseBackspace ==
    [][ /\ (Mode = "Browse" /\ LiveKey(KEY_BACKSPACE)) =>
              IF Len(processes) = 0 /\ AnyCli
              THEN /\ ~AnyCli'
                   /\ processes' = Enumeration[world]
                   /\ selected' = 0
                   /\ Mode' = "Browse"
              ELSE UNCHANGED << world, cli_vars, selected, filter_text,
                                is_filtering, running, details, processes,
                                process_to_kill, pc, nthreads, ticks >>
        /\ cli_vars' # cli_vars => (Len(processes) = 0 /\ ~AnyCli')
        /\ ~AnyCli => ~AnyCli'
      ]_vars

\* C11 witness: the session was started with CLI filters, they have been
\* cleared, and the process they had hidden is listed in Browse
C11_Witness ==
    /\ Mode = "Browse"
    /\ ~AnyCli
    /\ world = {1}
    /\ Len(processes) = 1
    /\ selected = 0
    /\ Quiescent

\* C12: when no refresh tick is in progress, Enter in Browse with a record
\* listed opens the confirmation view with the highlighted record captured,
\* the record at position selected; with nothing listed it leaves the
\* session in Browse with no record captured.
C12_BrowseEnter ==
    [][ (Mode = "Browse" /\ Quiescent /\ LiveKey(KEY_ENTER)) =>
            IF Len(processes) > 0
            THEN /\ Mode' = "ConfirmKill"
                 /\ \E i \in HighlightedRows(processes, selected) :
                       /\ i = selected
                       /\ process_to_kill' = Some(processes[i + 1])
            ELSE /\ Mode' = "Browse"
                 /\ process_to_kill' = None
      ]_vars

\* C13: n or q in the confirmation view returns the session to Browse
\* without calling kill_process and without reading the list again: the
\* step leaves processes, selected, the CLI filters, details and the running
\* processes unchanged.
C13_CancelFrame ==
    [][ (Mode = "ConfirmKill"
           /\ \E ch \in ConfirmKeys :
                 LowerChar(ch) \in {"n", "q"} /\ ConfirmKey(ch)) =>
            /\ Mode' = "Browse"
            /\ terminator' = None
            /\ process_to_kill' = None
            /\ UNCHANGED << processes, selected, cli_vars, details, world,
                            filter_text, running >>
      ]_vars

\* C13 witness: back in Browse after a cancel with the list as it was when
\* the confirmation view was opened from the filter, narrower than the
\* enumeration
C13_Witness ==
    /\ Mode = "Browse"
    /\ nthreads = 2
    /\ terminator = None
    /\ filter_text = << "n" >>
    /\ world = {1, 2}
    /\ Len(processes) = 1
    /\ ~AnyCli
    /\ Quiescent

\* the keys of the confirmation view that are y whatever their case
YesKeys == { ch \in ConfirmKeys : LowerChar(ch) = "y" }

\* the keys of the confirmation view that are n or q whatever their case
CancelKeys == { ch \in ConfirmKeys : LowerChar(ch) \in {"n", "q"} }

\* C14: in the confirmation view y and Y call kill_process, n, N and q
\* return to Browse without exiting (running stays TRUE) and without calling
\* kill_process, and every other key leaves the session in the view with the
\* captured record unchanged and kill_process not called.
C14_ConfirmKeys ==
    [][ Mode = "ConfirmKill" =>
            /\ \A ch \in YesKeys :
                  \/ terminator' = Some(process_to_kill[1].pid)
                  \/ ~ConfirmKey(ch)
            /\ \A ch \in CancelKeys :
                  \/ /\ Mode' = "Browse"
                     /\ running'
                     /\ terminator' = None
                  \/ ~ConfirmKey(ch)
            /\ \A ch \in ConfirmKeys \ (YesKeys \cup CancelKeys) :
                  \/ /\ Mode' = "ConfirmKill"
                     /\ process_to_kill' = process_to_kill
                     /\ terminator' = None
                  \/ ~ConfirmKey(ch)
      ]_vars

\* C14 witness: the confirmation view opened on the second row has been
\* left without a kill and without exiting: the session is running in
\* Browse with both processes listed
C14_Witness ==
    /\ Mode = "Browse"
    /\ running
    /\ nthreads = 2
    /\ terminator = None
    /\ filter_text = << >>
    /\ world = {1, 2}
    /\ Len(processes) = 2
    /\ selected = 1

\* x brought into 0..(n - 1), and 0 when that range is empty
ClampIndex(x, n) == IF x >= n THEN (IF n = 0 THEN 0 ELSE n - 1)
                    ELSE IF x < 0 THEN 0 ELSE x

\* C15: with the keys alone, in Browse and in Filtering, Up and k set
\* selected to selected - 1 and Down and j to selected + 1, brought into
\* 0..(N - 1) for the N records listed (Up at 0 and Down at N - 1 change
\* nothing, and the index does not wrap); the list and filter_text are
\* unchanged.
C15_NavigationClamps ==
    [][ (pc = "live") =>
            \A ch \in {KEY_UP, KEY_DOWN, "k", "j"} :
                LiveKey(ch) =>
                    /\ selected' =
                          ClampIndex(IF ch \in {KEY_UP, "k"}
                                     THEN selected - 1 ELSE selected + 1,
                                     Len(processes))
                    /\ UNCHANGED << processes, filter_text >>
      ]_vars

\* C16: the step that lists the enumeration again after a confirmed kill
\* leaves selected unchanged when it is below the new length N', and
\* otherwise sets it to N' - 1, or to 0 when N' = 0; a refresh tick ends
\* without writing selected only when selected is below the length of the
\* list, and otherwise writes the last valid index, or 0 for an empty list.
C16_ClampOnShrink ==
    [][ /\ (pc = "confirm" /\ terminator' # None /\ pc' = "live") =>
              selected' = IF selected < Len(processes') THEN selected
                          ELSE IF Len(processes') = 0 THEN 0
                          ELSE Len(processes') - 1
        /\ \A t \in BagToSet(ticks) :
              /\ (TickClampCheck(t) /\ ClampBranch = "done") =>
                    selected < Len(processes)
              /\ TickClampSet(t) =>
                    selected' = IF Len(processes) = 0 THEN 0
                                ELSE Len(processes) - 1
      ]_vars

\* what get_filtered_processes() returns in the current state
FilteredNow ==
    get_filtered_processes(world, cli_port, cli_user, cli_command,
                           is_filtering, filter_text)

\* C17: in a session left alone in Browse or in Filtering after the set of
\* listening processes has changed (no key is pressed, the set stays the
\* same), with the refresh threads scheduled fairly, the list is from some
\* time on the enumeration of that set narrowed by the CLI filters and, in
\* Filtering, by filter_text.
C17_RefreshCatchesUp ==
    <>[](Mode \in {"Browse", "Filtering"} /\ processes = FilteredNow)

\* C17 witness: in Filtering a tick has just published the list of the two
\* processes that listen now and match the filter text, and selected is
\* still the index in the longer list shown before
C17_Witness ==
    /\ Mode = "Filtering"
    /\ world = {2}
    /\ filter_text = << "K" >>
    /\ Len(processes) = 1
    /\ processes = FilteredNow
    /\ selected = 1
    /\ \E t \in BagToSet(ticks) : t.at = "clamp"

\* C18: a step of a refresh tick, in Browse, in Filtering and while the
\* confirmation view is shown, writes nothing but processes and selected:
\* the mode, filter_text, details, the CLI filters and the record captured
\* for the confirmation are unchanged.
C18_RefreshFrame ==
    [][ RefreshStep =>
            /\ Mode' = Mode
            /\ UNCHANGED << pc, is_filtering, running, filter_text, details,
                            cli_vars, process_to_kill >>
      ]_vars

\* C18 witness: while the confirmation view is shown a tick has published a
\* list that no longer holds the captured record
C18_Witness ==
    /\ Mode = "ConfirmKill"
    /\ process_to_kill # None
    /\ \A i \in 1..Len(processes) : processes[i] # process_to_kill[1]
    /\ \E t \in BagToSet(ticks) : t.at = "clamp"

\* C19: in Browse, in Filtering and in the confirmation view the interrupt
\* signal can be delivered at once, and its step ends the session with exit
\* status 0 without calling kill_process.
C19_InterruptExits ==
    /\ [](Mode \in {"Browse", "Filtering", "ConfirmKill"} => ENABLED Interrupt)
    /\ [][ Interrupt =>
              /\ Mode' = "Exiting"
              /\ ExitStatus' = Some(0)
              /\ terminator' = None
         ]_vars

\* C19 witness: the session was interrupted while the confirmation view was
\* shown: it has ended with status 0, running still TRUE and a record
\* captured
C19_Witness ==
    /\ Mode = "Exiting"
    /\ ExitStatus = Some(0)
    /\ running
    /\ process_to_kill # None

C21_OneRefreshWorker == Alive => nthreads = 1

\* the key of the deduplication
SameKey(p, q) == p.pid = q.pid /\ p.port = q.port

\* the position in raw of the first record with the key of p
FirstAt(raw, p) == Min({ i \in 1..Len(raw) : SameKey(raw[i], p) })

\* C22: the list get_processes returns has no two records with the same
\* (pid, port), has a record for every (pid, port) among the records
\* appended, and that record is the first one appended with the key.
C22_Deduplicated ==
    Returned("get_processes") =>
        LET raw == call.arg
            out == call.ret[1]
        IN  /\ \A i, j \in 1..Len(out) : SameKey(out[i], out[j]) => i = j
            /\ \A i \in 1..Len(raw) :
                  \E j \in 1..Len(out) : SameKey(out[j], raw[i])
            /\ \A j \in 1..Len(out) :
                  /\ \E i \in 1..Len(raw) : SameKey(raw[i], out[j])
                  /\ out[j] = raw[FirstAt(raw, out[j])]

\* C22 witness: the first and the third record appended have the same key
\* and differ (the second lookup failed), and the list returned holds the
\* first of them and the record between them
C22_Witness ==
    /\ Returned("get_processes")
    /\ Len(call.arg) = 3
    /\ SameKey(call.arg[1], call.arg[3])
    /\ call.arg[1] # call.arg[3]
    /\ ~SameKey(call.arg[1], call.arg[2])
    /\ Len(call.ret[1]) = 2

\* C23: in the list get_processes returns the records with a numeric port
\* come before those with a non-numeric port, the numeric ports ascend, the
\* non-numeric ports are in string order, and records with equal ports are
\* in the order in which they were appended.
C23_SortedByPort ==
    Returned("get_processes") =>
        LET raw == call.arg
            out == call.ret[1]
        IN  \A i, j \in 1..Len(out) :
                i < j =>
                    /\ out[i].port.isStr => out[j].port.isStr
                    /\ (~out[i].port.isStr /\ ~out[j].port.isStr) =>
                           out[i].port.num <= out[j].port.num
                    /\ (out[i].port.isStr /\ out[j].port.isStr) =>
                           ~StrLess(out[j].port.str, out[i].port.str)
                    /\ out[i].port = out[j].port =>
                           FirstAt(raw, out[i]) < FirstAt(raw, out[j])

\* C23 witness: a non-numeric port was appended first and two records with
\* the same numeric port after it; the list returned has the numeric ports
\* first, pid 2 before pid 1 as appended
C23_Witness ==
    /\ Returned("get_processes")
    /\ Len(call.arg) = 3
    /\ call.arg[1].port.isStr
    /\ call.arg[2].port = IntPort(80) /\ call.arg[2].pid = 2
    /\ call.arg[3].port = IntPort(80) /\ call.arg[3].pid = 1
    /\ call.ret[1] = << call.arg[2], call.arg[3], call.arg[1] >>

\* the (pid, port) of the listening connections of the host
ListeningKeys ==
    { << ConnTable[i].pid, ConnTable[i].port >> :
          i \in { k \in 1..Len(ConnTable) : ConnTable[k].status = "LISTEN" } }

\* C24: get_processes raises nothing.  On the primary path every listening
\* (pid, port) has a record; after a permission failure of the bulk
\* enumeration exactly the processes whose connections can be listed have
\* records.  A record has the user and the command of its process, and both
\* are "N/A" when the lookup of the process failed.
C24_NeverFails ==
    Returned("get_processes on a host") =>
        LET host == call.arg
            out == call.ret[1]
        IN  /\ out.raised = "ok"
            /\ \A key \in ListeningKeys :
                  (\E i \in 1..Len(out.value) :
                       /\ out.value[i].pid = key[1]
                       /\ out.value[i].port = IntPort(key[2]))
                  <=> (host.bulk = "ok" \/ host.conns[key[1]] = "ok")
            /\ \A i \in 1..Len(out.value) :
                  LET p == out.value[i]
                  IN  /\ << p.pid, p.port.num >> \in ListeningKeys
                      /\ IF host.lookup[p.pid] = "ok"
                         THEN /\ p.user = ProcTable[p.pid].user
                              /\ p.command = ProcTable[p.pid].command
                         ELSE p.user = S_NA /\ p.command = S_NA

\* C24 witness: the bulk enumeration is denied, process 1 has become a
\* zombie and is skipped, the lookup of process 2 is denied and its record
\* has "N/A" twice
C24_Witness ==
    /\ Returned("get_processes on a host")
    /\ call.arg.bulk = "AccessDenied"
    /\ call.arg.conns[1] = "ZombieProcess"
    /\ call.arg.conns[2] = "ok"
    /\ call.arg.lookup[2] = "AccessDenied"
    /\ call.ret[1].raised = "ok"
    /\ Len(call.ret[1].value) = 1
    /\ call.ret[1].value[1].pid = 2
    /\ call.ret[1].value[1].user = S_NA
    /\ call.ret[1].value[1].command = S_NA

\* text occurs in s when the case of the letters is ignored
ContainsIgnoringCase(text, s) ==
    \E k \in 0..(Len(s) - Len(text)) :
        \A i \in 1..Len(text) : LowerChar(s[k + i]) = LowerChar(text[i])

\* C25: the CLI filters return the records of their input that have the
\* port, have the user and contain the command text whatever the case, for
\* the options that are set, in input order; with no option the input is
\* returned; port then user equals user then port; filtering the result
\* again with the same options returns it.
C25_CliFilterAlgebra ==
    Returned("get_filtered_processes") =>
        LET a == call.arg
            out == call.ret[1]
            Sat(p) ==
                /\ a.port # None => p.port = IntPort(a.port[1])
                /\ a.user # None => p.user = a.user[1]
                /\ a.command # None =>
                       ContainsIgnoringCase(a.command[1], p.command)
        IN  /\ out = SelectSeq(a.ps, Sat)
            /\ (a.port = None /\ a.user = None /\ a.command = None) =>
                   out = a.ps
            /\ ApplyCLIFilters(ApplyCLIFilters(a.ps, a.port, None, None),
                               None, a.user, None)
               = ApplyCLIFilters(ApplyCLIFilters(a.ps, None, a.user, None),
                                 a.port, None, None)
            /\ ApplyCLIFilters(out, a.port, a.user, a.command) = out

\* C25 witness: all three options are set; the first record has another
\* port, the second satisfies the three (its command has the text in the
\* other case), the third has another user
C25_Witness ==
    /\ Returned("get_filtered_processes")
    /\ call.arg.port # None /\ call.arg.user # None
    /\ call.arg.command # None
    /\ Len(call.arg.ps) = 3
    /\ call.arg.ps[1].port.isStr
    /\ call.arg.ps[2].command = << "a", "x" >>
    /\ call.arg.ps[3].user = << "d", "e", "v" >>
    /\ ~call.arg.ps[3].port.isStr
    /\ call.ret[1] = << call.arg.ps[2] >>

\* C26: apply_filter returns its list when the text is empty; otherwise it
\* returns the records whose name contains the text, whatever the case of
\* the letters, in input order, and the empty list when there is none.
C26_ApplyFilter ==
    Returned("apply_filter") =>
        LET a == call.arg
            out == call.ret[1]
            Named(p) == ContainsIgnoringCase(a.text, p.name)
        IN  /\ a.text = << >> => out = a.ps
            /\ a.text # << >> => out = SelectSeq(a.ps, Named)
            /\ (a.text # << >> /\ \A i \in 1..Len(a.ps) : ~Named(a.ps[i]))
                   => out = << >>

\* C26 witness: the text kn keeps the first and the third of three records,
\* named Kn, and drops the second, named K
C26_Witness ==
    /\ Returned("apply_filter")
    /\ call.arg.text = << "k", "n" >>
    /\ Len(call.arg.ps) = 3
    /\ call.arg.ps[1].name = << "K", "n" >>
    /\ call.arg.ps[2].name = << "K" >>
    /\ call.arg.ps[3].name = << "K", "n" >>
    /\ call.arg.ps[1] # call.arg.ps[3]
    /\ call.ret[1] = << call.arg.ps[1], call.arg.ps[3] >>

\* C27: for a list of N >= 1 records and a selected index in [0, N-1], the
\* rows drawn are the records at page*4 .. page*4+3 of the list that exist,
\* page being the selected index divided by 4; exactly the row at the
\* selected index modulo 4 has the indicator, and it shows the record at the
\* selected index of the list.
C27_Pagination ==
    Returned("_render_processes_table") =>
        LET ps == call.arg.processes
            sel == call.arg.selected
            panels == call.ret[1]
            P == 4
            page == sel \div P
            shown == { i \in 1..Len(ps) : page * P < i /\ i <= page * P + P }
        IN  (Len(ps) >= 1 /\ 0 <= sel /\ sel <= Len(ps) - 1) =>
                /\ Len(panels) = Cardinality(shown)
                /\ \A i \in 1..Len(panels) :
                      /\ panels[i].process = ps[page * P + i]
                      /\ panels[i].indicator <=> (i - 1 = sel % P)
                /\ (sel % P) + 1 \in 1..Len(panels)
                /\ panels[(sel % P) + 1].process = ps[sel + 1]

\* C27 witness: 9 records and the selected index 8: the third page is drawn,
\* it has one row, the ninth record, with the indicator
C27_Witness ==
    /\ Returned("_render_processes_table")
    /\ Len(call.arg.processes) = 9
    /\ call.arg.selected = 8
    /\ Len(call.ret[1]) = 1
    /\ call.ret[1][1].indicator
    /\ call.ret[1][1].process.pid = 9

\* s is only decimal digits
OnlyDigits(s) == Len(s) > 0 /\ \A i \in 1..Len(s) : IsDigit(s[i])

\* C28 as stated: parse_port maps a string of only decimal digits to its
\* integer value and returns every other string unchanged.
C28_OnlyDigitsParsed ==
    Returned("parse_port") =>
        IF OnlyDigits(call.arg)
        THEN call.ret[1] = IntPort(DigitsValue(call.arg))
        ELSE call.ret[1] = StrPort(call.arg)

\* the ways of reading s as an integer literal: a blanks, then g sign
\* characters, then n characters of digits with single underscores between
\* digits, then blanks to the end
Literals(s) ==
    { f \in (0..Len(s)) \X {0, 1} \X (1..Len(s)) :
        LET a == f[1]
            g == f[2]
            n == f[3]
            from == a + g
        IN  /\ from + n <= Len(s)
            /\ \A i \in 1..a : s[i] = " "
            /\ g = 1 => s[a + 1] \in {"+", "-"}
            /\ \A i \in (from + 1)..(from + n) :
                  \/ IsDigit(s[i])
                  \/ /\ s[i] = "_"
                     /\ from + 1 < i /\ i < from + n
                     /\ IsDigit(s[i - 1]) /\ IsDigit(s[i + 1])
            /\ \A i \in (from + n + 1)..Len(s) : s[i] = " " }

\* the integer a literal denotes
LiteralValue(s, f) ==
    LET digits == SelectSeq(SubSeq(s, f[1] + f[2] + 1, f[1] + f[2] + f[3]),
                            IsDigit)
    IN  IF f[2] = 1 /\ s[f[1] + 1] = "-"
        THEN 0 - DigitsValue(digits)
        ELSE DigitsValue(digits)

\* C28 amended: parse_port maps a string that is an integer literal (a run
\* of decimal digits, possibly with blanks around it, a sign before it and
\* single underscores between its digits) to the integer it denotes, and
\* returns every other string unchanged.
C28_IntegerLiteralsParsed ==
    Returned("parse_port") =>
        LET s == call.arg
        IN  /\ OnlyDigits(s) => call.ret[1] = IntPort(DigitsValue(s))
            /\ \A f \in Literals(s) : call.ret[1] = IntPort(LiteralValue(s, f))
            /\ Literals(s) = {} => call.ret[1] = StrPort(s)

\* C28 witness: the string " 80", which is not only digits, is returned as
\* the integer 80
C28_Witness ==
    /\ Returned("parse_port")
    /\ call.arg = << " ", "8", "0" >>
    /\ call.ret[1] = IntPort(80)

\* the path component around the first ".app/" of command, without its
\* ".app" suffix
EnclosingBundle(command) ==
    LET marker == Min(Occurrences(S_APP_SLASH, command))
        start == Max({0} \cup { k \in 1..marker : command[k] = "/" })
    IN  Slice(command, start, marker)

\* C29: for a command containing ".app/" extract_app_name returns the path
\* component around the first ".app/" without its ".app" suffix; "" and
\* "N/A" are returned unchanged.
C29_BundleName ==
    Returned("extract_app_name") =>
        LET command == call.arg
        IN  /\ command \in { << >>, S_NA } => call.ret[1] = command
            /\ Occurrences(S_APP_SLASH, command) # {} =>
                   call.ret[1] = EnclosingBundle(command)

\* C30: '/' in Browse leads to Filtering with an empty filter text; the
\* list, the selected index, the details flag and the CLI filters are the
\* same after it.
C30_SlashOpensFilter ==
    [][ (Mode = "Browse" /\ LiveKey("/")) =>
            /\ Mode' = "Filtering"
            /\ filter_text' = << >>
            /\ UNCHANGED << processes, selected, details, cli_vars >>
      ]_vars

\* C30 witness: Filtering was entered a second time, after a filter text
\* that narrowed the list to one of two processes and a highlight moved to
\* the second of two records: the text is empty and the list and the
\* highlight are those Browse had
C30_Witness ==
    /\ Mode = "Filtering"
    /\ filter_text = << >>
    /\ nthreads = 2
    /\ world = {1, 2}
    /\ ~AnyCli
    /\ Len(processes) = 1
    /\ details
    /\ Quiescent

\* C31: d in Browse flips details and leaves the mode, the list, the
\* selected index, the filter text and the CLI filters as they were; no
\* other step, of a key or of a refresh tick, changes details.
C31_DetailsToggle ==
    [][ /\ (Mode = "Browse" /\ LiveKey("d")) =>
              /\ details' = ~details
              /\ Mode' = "Browse"
              /\ UNCHANGED << processes, selected, filter_text, cli_vars >>
        /\ details' # details => (Mode = "Browse" /\ LiveKey("d"))
      ]_vars

\* C31 witness: Browse with the details shown, after a pass through the
\* confirmation view, with two records listed and the second highlighted
C31_Witness ==
    /\ Mode = "Browse"
    /\ details
    /\ nthreads = 2
    /\ Len(processes) = 2
    /\ selected = 1
    /\ ~AnyCli
    /\ Quiescent

\* C32: whatever the interleaving of the refresh ticks with the keys, Enter
\* in Browse or in Filtering with a record listed reads the list at a
\* position it has, and the session does not end with an IndexError.
C32_EnterNeverFaults ==
    [][ ((pc = "live") /\ Len(processes) > 0 /\ LiveKey(KEY_ENTER)) =>
            /\ IndexOk(processes, selected)
            /\ pc' # "fault"
      ]_vars

\* the lists that are the filter text applied to an enumeration: of any set
\* of running processes, as get_processes returns it or narrowed by the CLI
\* filters as the refresh tick does
FilteredEnumerations ==
    { apply_filter(filter_text, Enumeration[w]) : w \in SUBSET Pids }
    \cup
    { apply_filter(filter_text,
                   ApplyCLIFilters(Enumeration[w], cli_port, cli_user,
                                   cli_command)) : w \in SUBSET Pids }

\* C33: in Filtering, when no refresh tick is in progress, the list is the
\* current filter text applied to an enumeration; a tick does not leave
\* behind a list computed from an older filter text.
C33_NoStaleFilter ==
    (Mode = "Filtering" /\ Quiescent) => processes \in FilteredEnumerations

====
